---------------------------- MODULE Spec2Model ----------------------------
(***************************************************************************)
(* KeyPy: the duplicate finder (keypy/core/duplicate_finder.py), the store *)
(* operations it relies on (keypy/core/database.py) and the interactive    *)
(* optimize command (keypy/cli/main.py).                                   *)
(*                                                                         *)
(* Strings are sequences of one-character strings, so that lower(),        *)
(* strip(), urlparse() and int() are computed character by character.      *)
(* None is the Python value None where a string is expected.               *)
(***************************************************************************)
EXTENDS Integers, Sequences, FiniteSets, TLC

None == <<"None">>

(***************************************************************************)
(* Bounds of the model.                                                    *)
(***************************************************************************)
\* longest store enumerated for find_duplicates alone
MaxEntries == 5
\* longest store an optimize run is started on
MaxStore == 4

(***************************************************************************)
(* str methods                                                             *)
(***************************************************************************)
UpperAlpha == <<"A","B","C","D","E","F","G","H","I","J","K","L","M",
                "N","O","P","Q","R","S","T","U","V","W","X","Y","Z">>
LowerAlpha == <<"a","b","c","d","e","f","g","h","i","j","k","l","m",
                "n","o","p","q","r","s","t","u","v","w","x","y","z">>
Digits == <<"0","1","2","3","4","5","6","7","8","9">>
Whitespace == {" ", "\t", "\n", "\r"}

UpperSet == {UpperAlpha[i] : i \in 1..26}
LowerSet == {LowerAlpha[i] : i \in 1..26}
DigitSet == {Digits[i] : i \in 1..10}
ToLower == [c \in UpperSet |-> LowerAlpha[CHOOSE i \in 1..26 : UpperAlpha[i] = c]]
ToDigit == [c \in DigitSet |-> (CHOOSE i \in 1..10 : Digits[i] = c) - 1]

IsUpper(c) == c \in UpperSet
IsAlpha(c) == c \in UpperSet \/ c \in LowerSet
IsDigit(c) == c \in DigitSet
DigitVal(c) == ToDigit[c]

\* str.lower() on one character
LowerChar(c) == IF IsUpper(c) THEN ToLower[c] ELSE c

\* str.lower()
\* a comparison that forgets .lower()
LowerKeep(s) == s

Lower(s) == [i \in 1..Len(s) |-> LowerChar(s[i])]

\* s[from:] with a 1-based first index
Drop(s, from) == SubSeq(s, from, Len(s))

\* s.startswith(p)
StartsWith(s, p) == Len(s) >= Len(p) /\ SubSeq(s, 1, Len(p)) = p

\* c in s
Contains(s, c) == \E i \in 1..Len(s) : s[i] = c

\* s.find(c) from 1-based position from; Len(s) + 1 when there is none
FindFrom(s, cs, from) ==
    IF \E i \in from..Len(s) : s[i] \in cs
    THEN CHOOSE i \in from..Len(s) :
            s[i] \in cs /\ \A j \in from..(i - 1) : s[j] \notin cs
    ELSE Len(s) + 1

\* s.rfind(c); 0 when there is none
RFind(s, c) ==
    IF Contains(s, c)
    THEN CHOOSE i \in 1..Len(s) : s[i] = c /\ \A j \in (i + 1)..Len(s) : s[j] # c
    ELSE 0

\* s.lstrip(chars)
LStripChars(s, cs) == Drop(s, FindFrom(s, {s[i] : i \in 1..Len(s)} \ cs, 1))

\* s.rstrip(chars)
\* an rstrip that takes one character off at most
RStripOne(s, cs) ==
    IF s # <<>> /\ s[Len(s)] \in cs THEN SubSeq(s, 1, Len(s) - 1) ELSE s

RStripChars(s, cs) ==
    IF \E i \in 1..Len(s) : s[i] \notin cs
    THEN SubSeq(s, 1, CHOOSE i \in 1..Len(s) :
                         s[i] \notin cs /\ \A j \in (i + 1)..Len(s) : s[j] \in cs)
    ELSE <<>>

\* str.strip()
Strip(s) == RStripChars(LStripChars(s, Whitespace), Whitespace)

\* s.replace(c, "") for every c of cs
RECURSIVE RemoveChars(_, _)
RemoveChars(s, cs) ==
    IF s = <<>> THEN <<>>
    ELSE IF Head(s) \in cs THEN RemoveChars(Tail(s), cs)
    ELSE <<Head(s)>> \o RemoveChars(Tail(s), cs)

(***************************************************************************)
(* urllib.parse.urlparse, as far as normalize_url reads it: the scheme,    *)
(* netloc and path of the result, or the ValueError it raises.  The steps  *)
(* are those of CPython 3.11: leading blanks and tab/CR/LF are removed, a  *)
(* scheme is a letter followed by scheme characters up to the first colon, *)
(* the netloc follows "//" up to the first of / ? #, then the fragment,    *)
(* the query and the parameters of the last path segment are cut off.      *)
(* ValueError is raised for a netloc with one of [ and ] but not the other;*)
(* the validation of a bracketed host is not modelled.                     *)
(***************************************************************************)
\* urllib.parse.uses_params
uses_params ==
    { <<>>, <<"f","t","p">>, <<"h","d","l">>,
      <<"p","r","o","s","p","e","r","o">>, <<"h","t","t","p">>,
      <<"i","m","a","p">>, <<"h","t","t","p","s">>, <<"s","h","t","t","p">>,
      <<"r","t","s","p">>, <<"r","t","s","p","u">>, <<"s","i","p">>,
      <<"s","i","p","s">>, <<"m","m","s">>, <<"s","f","t","p">>,
      <<"t","e","l">> }

\* scheme_chars
IsSchemeChar(c) == IsAlpha(c) \/ IsDigit(c) \/ c \in {"+", "-", "."}

\* urllib.parse._splitparams: the url without the parameters of its last segment
SplitParams(url) ==
    LET slash == RFind(url, "/")
        i == FindFrom(url, {";"}, IF slash > 0 THEN slash ELSE 1)
    IN SubSeq(url, 1, i - 1)

urlparse(input) ==
    LET url0 == RemoveChars(LStripChars(input, Whitespace), {"\t", "\r", "\n"})
        colon == FindFrom(url0, {":"}, 1)
        hasScheme == /\ colon >= 2
                     /\ colon <= Len(url0)
                     /\ IsAlpha(url0[1])
                     /\ \A j \in 1..(colon - 1) : IsSchemeChar(url0[j])
        scheme == IF hasScheme THEN Lower(SubSeq(url0, 1, colon - 1)) ELSE <<>>
        url1 == IF hasScheme THEN Drop(url0, colon + 1) ELSE url0
        hasNetloc == StartsWith(url1, <<"/", "/">>)
        delim == FindFrom(url1, {"/", "?", "#"}, 3)
        netloc == IF hasNetloc THEN SubSeq(url1, 3, delim - 1) ELSE <<>>
        url2 == IF hasNetloc THEN Drop(url1, delim) ELSE url1
        url3 == SubSeq(url2, 1, FindFrom(url2, {"#"}, 1) - 1)
        url4 == SubSeq(url3, 1, FindFrom(url3, {"?"}, 1) - 1)
        path == IF scheme \in uses_params /\ Contains(url4, ";")
                THEN SplitParams(url4) ELSE url4
    IN [ raised |-> hasNetloc /\ (Contains(netloc, "[") # Contains(netloc, "]")),
         scheme |-> scheme,
         netloc |-> netloc,
         path   |-> path ]

(***************************************************************************)
(* DuplicateFinder.normalize_url and normalize_username                    *)
(***************************************************************************)
HttpsPrefix == <<"h","t","t","p","s",":","/","/">>
WwwPrefix == <<"w","w","w",".">>

\* a reconstruction that keeps the www. prefix
ReconstructKeepWww(parsed) ==
    LET path == IF parsed.path # <<"/">> THEN RStripChars(parsed.path, {"/"}) ELSE <<>>
    IN parsed.scheme \o <<":", "/", "/">> \o Lower(parsed.netloc) \o path

\* the part of normalize_url after a parse that did not raise
Reconstruct(parsed) ==
    LET lowered == Lower(parsed.netloc)
        domain == IF StartsWith(lowered, WwwPrefix) THEN Drop(lowered, 5) ELSE lowered
        path == IF parsed.path # <<"/">> THEN RStripChars(parsed.path, {"/"}) ELSE <<>>
    IN parsed.scheme \o <<":", "/", "/">> \o domain \o path

normalize_url(url) ==
    IF url = None \/ url = <<>> \/ Strip(url) = <<>> THEN <<>>
    ELSE LET url1 == Strip(Lower(url))
             parsed1 == urlparse(url1)
         IN IF parsed1.raised THEN Lower(url1)
            ELSE IF parsed1.scheme # <<>> THEN Reconstruct(parsed1)
            ELSE LET url2 == HttpsPrefix \o url1
                     parsed2 == urlparse(url2)
                 IN IF parsed2.raised THEN Lower(url2) ELSE Reconstruct(parsed2)

\* whether a urlparse call of normalize_url(url) raises, so that the except
\* branch returns
ParseFails(url) ==
    /\ url # None
    /\ Strip(url) # <<>>
    /\ LET url1 == Strip(Lower(url))
           parsed1 == urlparse(url1)
       IN  \/ parsed1.raised
           \/ parsed1.scheme = <<>> /\ urlparse(HttpsPrefix \o url1).raised

normalize_username(username) ==
    IF username = None \/ username = <<>> THEN <<>> ELSE Strip(Lower(username))


(***************************************************************************)
(* The records of a store.  An entry is the object pykeepass hands out;    *)
(* id is its identity.  The stores enumerated are built from a pool of     *)
(* field values in which several raw urls and usernames share one          *)
(* normalized key.                                                         *)
(***************************************************************************)
Profiles ==
    << [title |-> "GitHub",  url |-> <<"h","t","t","p","s",":","/","/","w","w","w",".","a",".","c","o","/">>,
                             username |-> <<"U">>,      password |-> "pass1"],
       [title |-> "GitHub2", url |-> <<"a",".","c","o">>,
                             username |-> <<" ","u">>,  password |-> "pass2"],
       [title |-> "Blank",   url |-> None,
                             username |-> None,         password |-> "pass1"],
       [title |-> "Blank2",  url |-> <<" ">>,
                             username |-> <<>>,         password |-> "pass1"],
       [title |-> "Plain",   url |-> <<"H","T","T","P",":","/","/","A",".","c","o","/">>,
                             username |-> <<"u"," ">>,  password |-> "pass1"] >>

NumProfiles == Len(Profiles)

Entry(id, p) ==
    [id |-> id, title |-> Profiles[p].title, url |-> Profiles[p].url,
     username |-> Profiles[p].username, password |-> Profiles[p].password]

\* the store whose entry i has identity i and the fields of profile f[i]
Store(f) == [i \in DOMAIN f |-> Entry(i, f[i])]

\* the choices among the profiles ps for a store of at most n entries
StoreChoices(n, ps) == UNION { [1..k -> ps] : k \in 0..n }

(***************************************************************************)
(* DuplicateGroup, DuplicateReport, DuplicateFinder.find_duplicates        *)
(***************************************************************************)
Front(s) == SubSeq(s, 1, Len(s) - 1)
Last(s) == s[Len(s)]

\* a check that compares the first two passwords only
check_first_passwords(entries) ==
    IF Len(entries) <= 1 THEN FALSE
    ELSE entries[1].password # entries[2].password

check_different_passwords(entries) ==
    IF Len(entries) <= 1 THEN FALSE
    ELSE Cardinality({entries[i].password : i \in 1..Len(entries)}) > 1

DuplicateGroup(url, username, entries) ==
    [url |-> url, username |-> username, entries |-> entries,
     has_different_passwords |-> check_different_passwords(entries)]

RECURSIVE SumSizes(_)
SumSizes(groups) ==
    IF groups = <<>> THEN 0 ELSE Len(Head(groups).entries) + SumSizes(Tail(groups))

\* a report that takes the redundant entries of one group only
DuplicateReportOneGroup(total_entries, duplicate_groups) ==
    [total_entries |-> total_entries,
     duplicate_groups |-> duplicate_groups,
     total_duplicates |-> SumSizes(duplicate_groups),
     redundant_entries |-> SumSizes(duplicate_groups) - 1]

DuplicateReport(total_entries, duplicate_groups) ==
    [total_entries |-> total_entries,
     duplicate_groups |-> duplicate_groups,
     total_duplicates |-> SumSizes(duplicate_groups),
     redundant_entries |-> SumSizes(duplicate_groups) - Len(duplicate_groups)]

has_duplicates(rep) == Len(rep.duplicate_groups) > 0

\* [g for g in self.duplicate_groups if g.has_different_passwords]
RECURSIVE get_groups_with_different_passwords(_)
get_groups_with_different_passwords(rep) ==
    IF rep.duplicate_groups = <<>> THEN <<>>
    ELSE LET g == Head(rep.duplicate_groups)
             rest == get_groups_with_different_passwords(
                         [rep EXCEPT !.duplicate_groups = Tail(rep.duplicate_groups)])
         IN  IF g.has_different_passwords THEN <<g>> \o rest ELSE rest

\* a finder that compares the fields as stored
EntryKeyRaw(entry) == <<entry.url, entry.username>>

EntryKey(entry) == <<normalize_url(entry.url), normalize_username(entry.username)>>

\* a grouping that leaves out the entries whose key is blank
BucketAppendNoBlank(dict, key, entry) ==
    IF key = << <<>>, <<>> >>
    THEN dict
    ELSE IF \E i \in 1..Len(dict) : dict[i].key = key
    THEN [i \in 1..Len(dict) |->
            IF dict[i].key = key
            THEN [dict[i] EXCEPT !.entries = Append(@, entry)]
            ELSE dict[i]]
    ELSE Append(dict, [key |-> key, entries |-> <<entry>>])

\* groups_dict[key].append(entry): the buckets in the order their keys were first seen
BucketAppend(dict, key, entry) ==
    IF \E i \in 1..Len(dict) : dict[i].key = key
    THEN [i \in 1..Len(dict) |->
            IF dict[i].key = key
            THEN [dict[i] EXCEPT !.entries = Append(@, entry)]
            ELSE dict[i]]
    ELSE Append(dict, [key |-> key, entries |-> <<entry>>])

\* the loop over entries that fills groups_dict
RECURSIVE groups_dict(_)
groups_dict(entries) ==
    IF entries = <<>> THEN <<>>
    ELSE BucketAppend(groups_dict(Front(entries)), EntryKey(Last(entries)), Last(entries))

\* a filter that keeps every bucket
KeepBucketAny(bucket) == Len(bucket.entries) >= 1

\* the buckets kept as duplicate groups
KeepBucket(bucket) == Len(bucket.entries) > 1

RECURSIVE FilterGroups(_)
FilterGroups(dict) ==
    IF dict = <<>> THEN <<>>
    ELSE (IF KeepBucket(Head(dict))
          THEN <<DuplicateGroup(Head(dict).key[1], Head(dict).key[2], Head(dict).entries)>>
          ELSE <<>>) \o FilterGroups(Tail(dict))

\* an ascending sort read backwards: ties come out in reverse
SortPositionReversed(sorted, g) ==
    Cardinality({i \in 1..Len(sorted) : Len(sorted[i].entries) > Len(g.entries)})

\* where list.sort(key=len(g.entries), reverse=True) puts g among the groups
\* sorted so far: behind every group that is at least as large (the sort is stable)
SortPosition(sorted, g) ==
    Cardinality({i \in 1..Len(sorted) : Len(sorted[i].entries) >= Len(g.entries)})

RECURSIVE SortBySizeDesc(_)
SortBySizeDesc(groups) ==
    IF groups = <<>> THEN <<>>
    ELSE LET sorted == SortBySizeDesc(Front(groups))
             k == SortPosition(sorted, Last(groups))
         IN SubSeq(sorted, 1, k) \o <<Last(groups)>> \o Drop(sorted, k + 1)

find_duplicates(entries) ==
    DuplicateReport(Len(entries), SortBySizeDesc(FilterGroups(groups_dict(entries))))

(***************************************************************************)
(* State.                                                                  *)
(***************************************************************************)
VARIABLES
    file,               \* the database file: [entries, trash], what kp.save() wrote last
    kp,                 \* db_manager.kp: [loaded, entries, trash], None when not loaded
    modified,           \* db_manager.modified
    dry_run,            \* the --dry-run flag
    pc,                 \* where the command stands
    report,             \* the DuplicateReport of the scan, empty before it
    idx,                \* the group under review, 1-based
    entries_to_delete,  \* optimize's deletion list
    audit_log,          \* optimize's audit lines
    backup_path,        \* optimize's backup_path, Unassigned before the assignment
    deleted_count,      \* optimize's deleted_count
    del_pos,            \* position of the delete loop in entries_to_delete
    echo,               \* the last message of the run
    backups,            \* what create_backup left at its destination, in call order
    audit_files,        \* the audit files written
    initial,            \* the database file when the command started
    presented,          \* the groups shown for review, in order
    decisions,          \* the accepted choices as compared by optimize, one per group
    answer,             \* the answer to the final confirmation, "" before it
    delete_calls,       \* the calls of db_manager.delete_entry: [entry, returned]
    arg,                \* the argument of a function called on its own
    ret,                \* what the last call on its own returned, <<>> or FALSE before it
    exc,                \* the exception that escaped the last call, "" when none did
    filepath            \* db_manager.filepath, NoPath when None

vars == <<file, kp, modified, dry_run, pc, report, idx, entries_to_delete, audit_log,
          backup_path, deleted_count, del_pos, echo, backups, audit_files, initial,
          presented, decisions, answer, delete_calls, arg, ret, exc, filepath>>

Database(entries) == [entries |-> entries, trash |-> <<>>]

\* db_manager.kp of a manager with no database loaded
NoKp == [loaded |-> FALSE, entries |-> <<>>, trash |-> <<>>]

\* PyKeePass(filepath, ...): what is read from the file f
Load(f) == [loaded |-> TRUE, entries |-> f.entries, trash |-> f.trash]

\* db_manager.filepath of a manager with no database loaded
NoPath == "<none>"

\* a local variable of optimize before its assignment
Unassigned == "<unassigned>"

\* the state a command starts in, on database file f and with db for kp;
\* ret is left to the specification
Start(f, db, dry, at) ==
    /\ file = f
    /\ initial = f
    /\ kp = db
    /\ modified = FALSE
    /\ dry_run = dry
    /\ pc = at
    /\ report = DuplicateReport(0, <<>>)
    /\ idx = 0
    /\ entries_to_delete = <<>>
    /\ audit_log = <<>>
    /\ backup_path = Unassigned
    /\ deleted_count = 0
    /\ del_pos = 0
    /\ echo = ""
    /\ backups = <<>>
    /\ audit_files = <<>>
    /\ presented = <<>>
    /\ decisions = <<>>
    /\ answer = ""
    /\ delete_calls = <<>>
    /\ arg = <<>>
    /\ exc = ""
    /\ filepath = NoPath

(***************************************************************************)
(* DatabaseManager.delete_entry and DuplicateFinder.create_backup.  What   *)
(* pykeepass and shutil do is an outcome drawn by the caller.              *)
(***************************************************************************)
DeleteOutcomes == {"deleted", "trash_raises", "save_raises"}
BackupOutcomes == {"copied", "nothing_written", "partly_written"}

RECURSIVE Without(_, _)
Without(entries, entry) ==
    IF entries = <<>> THEN <<>>
    ELSE (IF Head(entries).id = entry.id THEN <<>> ELSE <<Head(entries)>>)
         \o Without(Tail(entries), entry)

\* kp.trash_entry(entry)
trash_entry(db, entry) ==
    [db EXCEPT !.entries = Without(@, entry), !.trash = Append(@, entry)]

\* delete_entry(entry) with use_recycle_bin=True on manager state (db, f, m):
\* the state it leaves and the value it returns
delete_entry(db, f, m, entry, outcome) ==
    IF ~ db.loaded
    THEN [kp |-> db, file |-> f, modified |-> m, returned |-> FALSE]
    ELSE IF outcome = "trash_raises"
    THEN [kp |-> db, file |-> f, modified |-> m, returned |-> FALSE]
    ELSE IF outcome = "save_raises"
    THEN [kp |-> trash_entry(db, entry), file |-> f, modified |-> m, returned |-> FALSE]
    ELSE [kp |-> trash_entry(db, entry),
          file |-> [entries |-> trash_entry(db, entry).entries,
                    trash |-> trash_entry(db, entry).trash],
          modified |-> FALSE, returned |-> TRUE]

\* create_backup(backup_path): the files at backup destinations afterwards
BackupFiles(files, db, f, path, outcome) ==
    IF ~ db.loaded
    THEN files
    ELSE IF outcome = "copied"
    THEN Append(files, [path |-> path, complete |-> TRUE, content |-> f])
    ELSE IF outcome = "partly_written"
    THEN Append(files, [path |-> path, complete |-> FALSE, content |-> f])
    ELSE files

\* a create_backup that reports success whatever the copy did
create_backupUnchecked(db, outcome) == TRUE

\* create_backup(backup_path): the value returned; with kp None the
\* AttributeError of self.kp.filename is caught like a failed copy
create_backup(db, outcome) == db.loaded /\ outcome = "copied"

(***************************************************************************)
(* The optimize command.                                                   *)
(***************************************************************************)
\* an int() that drops the sign
ParseIntUnsigned(text) ==
    LET s == Strip(text)
        body == IF s # <<>> /\ s[1] \in {"+", "-"} THEN Tail(s) ELSE s
        wellFormed == body # <<>> /\ \A i \in 1..Len(body) : IsDigit(body[i])
        magnitude[n \in 0..Len(body)] ==
            IF n = 0 THEN 0 ELSE 10 * magnitude[n - 1] + DigitVal(body[n])
    IN IF ~ wellFormed THEN [ok |-> FALSE, value |-> 0]
       ELSE [ok |-> TRUE, value |-> magnitude[Len(body)]]

\* int(choice): [ok, value]; not ok is the ValueError
ParseInt(text) ==
    LET s == Strip(text)
        signed == s # <<>> /\ s[1] \in {"+", "-"}
        body == IF signed THEN Tail(s) ELSE s
        wellFormed ==
            /\ body # <<>>
            /\ \A i \in 1..Len(body) :
                  \/ IsDigit(body[i])
                  \/ /\ body[i] = "_"
                     /\ 1 < i
                     /\ i < Len(body)
                     /\ IsDigit(body[i - 1])
                     /\ IsDigit(body[i + 1])
        digits == RemoveChars(body, {"_"})
        magnitude[n \in 0..Len(digits)] ==
            IF n = 0 THEN 0 ELSE 10 * magnitude[n - 1] + DigitVal(digits[n])
    IN IF ~ wellFormed THEN [ok |-> FALSE, value |-> 0]
       ELSE [ok |-> TRUE,
             value |-> IF signed /\ s[1] = "-"
                       THEN 0 - magnitude[Len(digits)] ELSE magnitude[Len(digits)]]

\* what the user may type at the choice prompt
RawChoices ==
    { <<"q">>, <<" ", "Q">>, <<"s">>, <<"S", " ">>, <<"x">>, <<"q", "q">>,
      <<"-", "1">>, <<"+", "2">>, <<"0", "1">>, <<"1", "_">>, <<"1", "0">>,
      <<"1", " ", "2">> }
    \cup { <<Digits[k + 1]>> : k \in 0..(MaxStore + 1) }

DatabasePath == "database.kdbx"
BackupName == "database.kdbx.backup.kdbx"

\* a backup taken in every run
NeedsBackupAlways(dry) == TRUE

\* a backup is taken unless the run is a dry run
NeedsBackup(dry) == ~ dry

\* a failed backup that does not stop the command
AfterBackupIgnored(ok) == "review"

\* after create_backup: on to the review, or sys.exit(1)
AfterBackup(ok) == IF ok THEN "review" ELSE "exit"

\* a quit that only leaves the review loop
AfterQuitBreak == "summary"

\* after the choice q: return
AfterQuit == "returned"

\* the 0-based index compared with the 1-based entry number
OthersOffByOne(group, entry_num) ==
    SubSeq(group.entries, 1, entry_num) \o Drop(group.entries, entry_num + 2)

\* a keep that marks the whole group
OthersAll(group, entry_num) == group.entries

\* the entries of the group marked for deletion when entry_num is kept
Others(group, entry_num) ==
    SubSeq(group.entries, 1, entry_num - 1) \o Drop(group.entries, entry_num + 1)

\* a confirmation whose answer is not read
AfterConfirmIgnored(yes) == "delete"

\* after click.confirm
AfterConfirm(yes) == IF yes THEN "delete" ELSE "returned"

\* a count of the deletions requested
CountRequested(count, returned) == count + 1

\* deleted_count after one call of delete_entry
CountDeleted(count, returned) == IF returned THEN count + 1 ELSE count

\* the profiles of the stores optimize is run on: two that share a key, and one
\* with blank url and username
OptimizeProfiles == {1, 2, 3}

Init == \E f \in StoreChoices(MaxStore, OptimizeProfiles) : \E dry \in BOOLEAN :
            Start(Database(Store(f)), NoKp, dry, "open") /\ ret = <<>>

\* db_manager.open(database, password, keyfile), or exit
Open(ok) ==
    /\ pc = "open"
    /\ IF ok
       THEN /\ kp' = Load(file)
            /\ filepath' = DatabasePath
            /\ pc' = "scan"
            /\ echo' = "Scanning database for duplicates..."
       ELSE /\ UNCHANGED <<kp, filepath>>
            /\ pc' = "exit"
            /\ echo' = "Failed to open database"
    /\ UNCHANGED <<arg, ret, exc, file, modified, dry_run, report, idx, entries_to_delete, audit_log,
                   backup_path, deleted_count, del_pos, backups, audit_files, initial,
                   presented, decisions, answer, delete_calls>>

\* finder.find_duplicates(), return when there is nothing to do
Scan ==
    /\ pc = "scan"
    /\ report' = find_duplicates(kp.entries)
    /\ IF has_duplicates(report')
       THEN pc' = "backup" /\ echo' = "Found duplicate group(s)"
       ELSE pc' = "returned" /\ echo' = "No duplicate entries found!"
    /\ UNCHANGED <<filepath, arg, ret, exc, file, kp, modified, dry_run, idx, entries_to_delete, audit_log,
                   backup_path, deleted_count, del_pos, backups, audit_files, initial,
                   presented, decisions, answer, delete_calls>>

\* the backup (or the dry-run notice), then the first group is shown
Backup(outcome) ==
    /\ pc = "backup"
    /\ IF NeedsBackup(dry_run)
       THEN /\ backup_path' = BackupName
            /\ backups' = BackupFiles(backups, kp, file, BackupName, outcome)
            /\ pc' = AfterBackup(create_backup(kp, outcome))
       ELSE /\ UNCHANGED <<backup_path, backups>>
            /\ pc' = "review"
    /\ IF pc' = "review"
       THEN /\ idx' = 1
            /\ presented' = <<1>>
            /\ echo' = "Your choice"
       ELSE /\ UNCHANGED <<idx, presented>>
            /\ echo' = "Failed to create backup. Aborting."
    /\ entries_to_delete' = <<>>
    /\ audit_log' = <<>>
    /\ UNCHANGED <<filepath, arg, ret, exc, file, kp, modified, dry_run, report, deleted_count, del_pos,
                   audit_files, initial, decisions, answer, delete_calls>>

\* a decision that ends the review of all groups
DecideOnce(marked, line, decision) ==
    /\ entries_to_delete' = entries_to_delete \o marked
    /\ audit_log' = Append(audit_log, line)
    /\ decisions' = Append(decisions, decision)
    /\ UNCHANGED <<idx, presented>>
    /\ pc' = "summary"
    /\ echo' = "Optimization Summary"

\* the group is decided: the lists grow and the loop goes on to the next group
Decide(marked, line, decision) ==
    /\ entries_to_delete' = entries_to_delete \o marked
    /\ audit_log' = Append(audit_log, line)
    /\ decisions' = Append(decisions, decision)
    /\ IF idx < Len(report.duplicate_groups)
       THEN /\ idx' = idx + 1
            /\ presented' = Append(presented, idx + 1)
            /\ pc' = "review"
            /\ echo' = "Your choice"
       ELSE /\ UNCHANGED <<idx, presented>>
            /\ pc' = "summary"
            /\ echo' = "Optimization Summary"

\* one answer at the prompt "Your choice"
Choose(raw) ==
    /\ pc = "review"
    /\ LET choice == Lower(Strip(raw))
           group == report.duplicate_groups[idx]
           entry_num == ParseInt(choice)
       IN IF choice = <<"q">>
          THEN /\ pc' = AfterQuit
               /\ echo' = "Optimization cancelled by user"
               /\ decisions' = Append(decisions, choice)
               /\ UNCHANGED <<idx, presented, entries_to_delete, audit_log>>
          ELSE IF choice = <<"s">>
          THEN Decide(<<>>,
                      [action |-> "Skipped", title |-> "", deleted |-> 0,
                       url |-> group.url, username |-> group.username],
                      choice)
          ELSE IF /\ entry_num.ok
                  /\ 1 <= entry_num.value
                  /\ entry_num.value <= Len(group.entries)
          THEN Decide(Others(group, entry_num.value),
                      [action |-> "Kept", title |-> group.entries[entry_num.value].title,
                       deleted |-> Len(group.entries) - 1,
                       url |-> group.url, username |-> group.username],
                      choice)
          ELSE /\ echo' = "Invalid choice"
               /\ UNCHANGED <<pc, idx, presented, entries_to_delete, audit_log, decisions>>
    /\ UNCHANGED <<filepath, arg, ret, exc, file, kp, modified, dry_run, report, backup_path, deleted_count,
                   del_pos, backups, audit_files, initial, answer, delete_calls>>

\* after the loop: the returns before the confirmation
Summary ==
    /\ pc = "summary"
    /\ IF entries_to_delete = <<>>
       THEN pc' = "returned" /\ echo' = "No entries marked for deletion"
       ELSE IF dry_run
       THEN pc' = "returned" /\ echo' = "DRY RUN MODE - No changes were made"
       ELSE pc' = "confirm" /\ echo' = "Are you sure you want to proceed?"
    /\ UNCHANGED <<filepath, arg, ret, exc, file, kp, modified, dry_run, report, idx, entries_to_delete,
                   audit_log, backup_path, deleted_count, del_pos, backups, audit_files,
                   initial, presented, decisions, answer, delete_calls>>

\* click.confirm
Confirm(yes) ==
    /\ pc = "confirm"
    /\ pc' = AfterConfirm(yes)
    /\ IF pc' = "delete"
       THEN del_pos' = 1 /\ deleted_count' = 0 /\ echo' = "Deleting entries..."
       ELSE UNCHANGED <<del_pos, deleted_count>> /\ echo' = "Optimization cancelled"
    /\ answer' = IF yes THEN "y" ELSE "n"
    /\ UNCHANGED <<filepath, arg, ret, exc, file, kp, modified, dry_run, report, idx, entries_to_delete,
                   audit_log, backup_path, backups, audit_files, initial, presented,
                   decisions, delete_calls>>

\* one round of the deletion loop
DeleteNext(outcome) ==
    /\ pc = "delete"
    /\ LET entry == entries_to_delete[del_pos]
           done == delete_entry(kp, file, modified, entry, outcome)
       IN /\ kp' = done.kp
          /\ file' = done.file
          /\ modified' = done.modified
          /\ delete_calls' = Append(delete_calls,
                                    [entry |-> entry, returned |-> done.returned])
          /\ deleted_count' = CountDeleted(deleted_count, done.returned)
          /\ IF del_pos < Len(entries_to_delete)
             THEN /\ del_pos' = del_pos + 1
                  /\ pc' = "delete"
                  /\ echo' = IF done.returned THEN echo ELSE "Failed to delete"
             ELSE /\ UNCHANGED del_pos
                  /\ pc' = "audit"
                  /\ echo' = "Database optimized!"
    /\ UNCHANGED <<filepath, arg, ret, exc, dry_run, report, idx, entries_to_delete, audit_log, backup_path,
                   backups, audit_files, initial, presented, decisions, answer>>

\* the audit file
SaveAudit ==
    /\ pc = "audit"
    /\ IF audit_log # <<>>
       THEN /\ audit_files' = Append(audit_files,
                                     [database |-> DatabasePath, backup |-> backup_path,
                                      actions |-> audit_log,
                                      total_deleted |-> deleted_count])
            /\ echo' = "Audit log saved"
       ELSE UNCHANGED <<audit_files, echo>>
    /\ pc' = "returned"
    /\ UNCHANGED <<filepath, arg, ret, exc, file, kp, modified, dry_run, report, idx, entries_to_delete,
                   audit_log, backup_path, deleted_count, del_pos, backups, initial,
                   presented, decisions, answer, delete_calls>>

Next ==
    \/ \E ok \in BOOLEAN : Open(ok)
    \/ Scan
    \/ \E outcome \in BackupOutcomes : Backup(outcome)
    \/ \E raw \in RawChoices : Choose(raw)
    \/ Summary
    \/ \E yes \in BOOLEAN : Confirm(yes)
    \/ \E outcome \in DeleteOutcomes : DeleteNext(outcome)
    \/ SaveAudit

Spec == Init /\ [][Next]_vars

(***************************************************************************)
(* The DuplicateFinder on its own: one call of find_duplicates, of         *)
(* get_groups_with_different_passwords on its report, or of create_backup, *)
(* on a finder built on an open store or on no store (kp None).            *)
(***************************************************************************)
InitFind ==
    \/ \E f \in StoreChoices(MaxEntries, 1..NumProfiles) :
            Start(Database(Store(f)), Load(Database(Store(f))), TRUE, "find") /\ ret = <<>>
    \/ Start(Database(<<>>), NoKp, TRUE, "find") /\ ret = <<>>

\* self.kp.entries is read outside any try: with kp None the AttributeError escapes
FindDuplicates ==
    /\ pc = "find"
    /\ IF kp.loaded
       THEN /\ report' = find_duplicates(kp.entries)
            /\ pc' = "found"
            /\ UNCHANGED exc
       ELSE /\ exc' = "AttributeError"
            /\ pc' = "raised"
            /\ UNCHANGED report
    /\ UNCHANGED <<filepath, file, kp, modified, dry_run, idx, entries_to_delete, audit_log,
                   backup_path, deleted_count, del_pos, echo, backups, audit_files,
                   initial, presented, decisions, answer, delete_calls, arg, ret>>

GetGroupsWithDifferentPasswords ==
    /\ pc = "found"
    /\ ret' = get_groups_with_different_passwords(report)
    /\ pc' = "listed"
    /\ UNCHANGED <<filepath, file, kp, modified, dry_run, report, idx, entries_to_delete,
                   audit_log, backup_path, deleted_count, del_pos, echo, backups,
                   audit_files, initial, presented, decisions, answer, delete_calls,
                   arg, exc>>

CreateBackup(outcome) ==
    /\ pc = "find"
    /\ arg' = BackupName
    /\ backups' = BackupFiles(backups, kp, file, BackupName, outcome)
    /\ ret' = create_backup(kp, outcome)
    /\ pc' = "backed_up"
    /\ UNCHANGED <<filepath, file, kp, modified, dry_run, report, idx, entries_to_delete,
                   audit_log, backup_path, deleted_count, del_pos, echo, audit_files,
                   initial, presented, decisions, answer, delete_calls, exc>>

NextFind ==
    \/ FindDuplicates
    \/ GetGroupsWithDifferentPasswords
    \/ \E outcome \in BackupOutcomes : CreateBackup(outcome)

SpecFind == InitFind /\ [][NextFind]_vars

(***************************************************************************)
(* normalize_url on its own: one call on a url made of at most MaxTokens   *)
(* pieces (or on None), then a second call on what the first returned.     *)
(***************************************************************************)
MaxTokens == 4

HttpPrefix == <<"h","t","t","p",":","/","/">>
UrlTokens == << HttpPrefix, WwwPrefix, <<"a">>, <<"A">>, <<"/">>, <<" ">>, <<"[">> >>

RECURSIVE JoinTokens(_)
JoinTokens(f) == IF f = <<>> THEN <<>> ELSE UrlTokens[Head(f)] \o JoinTokens(Tail(f))

UrlInputs ==
    {None} \cup { JoinTokens(f) : f \in StoreChoices(MaxTokens, 1..Len(UrlTokens)) }

InitNorm == Start(Database(<<>>), NoKp, TRUE, "normalize") /\ ret = <<>>

NormalizeUrl(url) ==
    /\ pc = "normalize"
    /\ arg' = url
    /\ ret' = normalize_url(url)
    /\ pc' = "normalized"
    /\ UNCHANGED <<filepath, file, kp, modified, dry_run, report, idx, entries_to_delete,
                   audit_log, backup_path, deleted_count, del_pos, echo, backups,
                   audit_files, initial, presented, decisions, answer, delete_calls,
                   exc>>

NormalizeAgain ==
    /\ pc = "normalized"
    /\ arg' = ret
    /\ ret' = normalize_url(ret)
    /\ pc' = "renormalized"
    /\ UNCHANGED <<filepath, file, kp, modified, dry_run, report, idx, entries_to_delete,
                   audit_log, backup_path, deleted_count, del_pos, echo, backups,
                   audit_files, initial, presented, decisions, answer, delete_calls,
                   exc>>

NextNorm ==
    \/ pc = "normalize" /\ \E url \in UrlInputs : NormalizeUrl(url)
    \/ NormalizeAgain

SpecNorm == InitNorm /\ [][NextNorm]_vars

(***************************************************************************)
(* DuplicateGroup.get_newest_entry and get_oldest_entry on a group whose   *)
(* entries carry a modified-time and a created-time, each a datetime or    *)
(* None.  The datetimes are the integers datetime_min..datetime_max.       *)
(***************************************************************************)
MaxGroup == 3

datetime_min == 0
datetime_max == 2
NoTime == 0 - 1

Timestamps == {NoTime} \cup (datetime_min..datetime_max)

\* the groups of 2..MaxGroup entries, entry i with identity i
TimedGroups ==
    UNION { [1..n -> [mtime : Timestamps, ctime : Timestamps]] : n \in 2..MaxGroup }

TimedEntries(g) == [i \in DOMAIN g |-> [id |-> i, mtime |-> g[i].mtime, ctime |-> g[i].ctime]]

\* lambda e: e.mtime if e.mtime else datetime.min
NewestKey(e) == IF e.mtime # NoTime THEN e.mtime ELSE datetime_min

\* lambda e: e.ctime if e.ctime else datetime.max
OldestKey(e) == IF e.ctime # NoTime THEN e.ctime ELSE datetime_max

\* max(entries, key=...): the first of the entries with the largest key
get_newest_entry(entries) ==
    entries[CHOOSE i \in 1..Len(entries) :
                /\ \A j \in 1..Len(entries) : NewestKey(entries[j]) <= NewestKey(entries[i])
                /\ \A j \in 1..(i - 1) : NewestKey(entries[j]) < NewestKey(entries[i])]

\* min(entries, key=...): the first of the entries with the smallest key
get_oldest_entry(entries) ==
    entries[CHOOSE i \in 1..Len(entries) :
                /\ \A j \in 1..Len(entries) : OldestKey(entries[j]) >= OldestKey(entries[i])
                /\ \A j \in 1..(i - 1) : OldestKey(entries[j]) > OldestKey(entries[i])]

InitTimes == Start(Database(<<>>), NoKp, TRUE, "group") /\ ret = <<>>

GetNewestEntry(g) ==
    /\ pc = "group"
    /\ arg' = TimedEntries(g)
    /\ ret' = get_newest_entry(TimedEntries(g))
    /\ pc' = "newest"
    /\ UNCHANGED <<filepath, file, kp, modified, dry_run, report, idx, entries_to_delete,
                   audit_log, backup_path, deleted_count, del_pos, echo, backups,
                   audit_files, initial, presented, decisions, answer, delete_calls,
                   exc>>

GetOldestEntry(g) ==
    /\ pc = "group"
    /\ arg' = TimedEntries(g)
    /\ ret' = get_oldest_entry(TimedEntries(g))
    /\ pc' = "oldest"
    /\ UNCHANGED <<filepath, file, kp, modified, dry_run, report, idx, entries_to_delete,
                   audit_log, backup_path, deleted_count, del_pos, echo, backups,
                   audit_files, initial, presented, decisions, answer, delete_calls,
                   exc>>

NextTimes ==
    \/ pc = "group" /\ \E g \in TimedGroups : GetNewestEntry(g)
    \/ pc = "group" /\ \E g \in TimedGroups : GetOldestEntry(g)

SpecTimes == InitTimes /\ [][NextTimes]_vars

(***************************************************************************)
(* The DatabaseManager on its own: open, save, close, add_entry,           *)
(* delete_entry, update_entry and save_if_modified called in any order on  *)
(* one database file.  What pykeepass does is an outcome drawn by the      *)
(* caller.                                                                 *)
(***************************************************************************)
MaxManaged == 2

OpenOutcomes == {"opened", "missing", "credentials", "error"}
AddOutcomes == {"added", "add_raises", "save_raises"}

\* an open that lets go of the database held before when it fails
openDropping(db, path, f, at, outcome) ==
    IF outcome = "opened"
    THEN [kp |-> Load(f), filepath |-> at, returned |-> TRUE, printed |-> ""]
    ELSE [kp |-> NoKp, filepath |-> NoPath, returned |-> FALSE, printed |-> "Error opening database"]

\* open(filepath, password, keyfile) of the file f at path at, on a manager
\* that holds (db, path): kp and filepath afterwards, the value returned and
\* what was printed
open(db, path, f, at, outcome) ==
    IF outcome = "missing"
    THEN [kp |-> db, filepath |-> path, returned |-> FALSE,
          printed |-> "Database file not found"]
    ELSE IF outcome = "credentials"
    THEN [kp |-> db, filepath |-> path, returned |-> FALSE,
          printed |-> "Invalid credentials"]
    ELSE IF outcome = "error"
    THEN [kp |-> db, filepath |-> path, returned |-> FALSE,
          printed |-> "Error opening database"]
    ELSE [kp |-> Load(f), filepath |-> at, returned |-> TRUE, printed |-> ""]

is_open(db) == db.loaded

\* what kp.save() writes
Saved(db) == [entries |-> db.entries, trash |-> db.trash]

\* save(): the file afterwards, the value returned and what was printed
save(db, f, ok) ==
    IF ~ db.loaded
    THEN [file |-> f, returned |-> FALSE, printed |-> "No database loaded"]
    ELSE IF ok
    THEN [file |-> Saved(db), returned |-> TRUE, printed |-> ""]
    ELSE [file |-> f, returned |-> FALSE, printed |-> "Error saving database"]

save_if_modified(db, f, m, ok) ==
    IF m THEN save(db, f, ok) ELSE [file |-> f, returned |-> TRUE, printed |-> ""]

\* url or "", username or ""
OrEmpty(text) == IF text = None THEN <<>> ELSE text

\* the entry kp.add_entry makes of (title, username, password, url)
NewEntry(db, title, username, password, url) ==
    [id |-> Len(db.entries) + Len(db.trash) + 1, title |-> title, url |-> OrEmpty(url),
     username |-> username, password |-> password]

\* add_entry(group_path, title, username, password, url, ...)
add_entry(db, f, m, title, username, password, url, outcome) ==
    IF ~ db.loaded
    THEN [kp |-> db, file |-> f, modified |-> m, returned |-> FALSE,
          printed |-> "No database loaded"]
    ELSE IF outcome = "add_raises"
    THEN [kp |-> db, file |-> f, modified |-> m, returned |-> FALSE,
          printed |-> "Error adding entry"]
    ELSE LET added == [db EXCEPT !.entries =
                                   Append(@, NewEntry(db, title, username, password, url))]
         IN  IF outcome = "save_raises"
             THEN [kp |-> added, file |-> f, modified |-> m, returned |-> FALSE,
                   printed |-> "Error adding entry"]
             ELSE [kp |-> added, file |-> Saved(added), modified |-> FALSE,
                   returned |-> TRUE, printed |-> ""]

\* update_entry(entry, password=password)
update_entry(db, m, entry, password, ok) ==
    IF ~ db.loaded
    THEN [kp |-> db, modified |-> m, returned |-> FALSE, printed |-> "No database loaded"]
    ELSE IF ~ ok
    THEN [kp |-> db, modified |-> m, returned |-> FALSE, printed |-> "Error updating entry"]
    ELSE [kp |-> [db EXCEPT !.entries =
                     [i \in 1..Len(@) |->
                         IF @[i].id = entry.id THEN [@[i] EXCEPT !.password = password]
                         ELSE @[i]]],
          modified |-> TRUE, returned |-> TRUE, printed |-> ""]

\* what a failed call printed last, the message before otherwise
Printed(text) == IF text = "" THEN echo ELSE text

\* a new manager on a file of no or one entry; ret is FALSE until a call returns
InitManager ==
    \E f \in StoreChoices(1, {1}) :
        Start(Database(Store(f)), NoKp, TRUE, "manager") /\ ret = FALSE

OpenDatabase(outcome) ==
    /\ pc = "manager"
    /\ LET done == open(kp, filepath, file, DatabasePath, outcome)
       IN  /\ kp' = done.kp
           /\ filepath' = done.filepath
           /\ ret' = done.returned
           /\ echo' = Printed(done.printed)
    /\ UNCHANGED <<file, modified, dry_run, pc, report, idx, entries_to_delete, audit_log,
                   backup_path, deleted_count, del_pos, backups, audit_files, initial,
                   presented, decisions, answer, delete_calls, arg, exc>>

SaveDatabase(ok) ==
    /\ pc = "manager"
    /\ LET done == save(kp, file, ok)
       IN  /\ file' = done.file
           /\ ret' = done.returned
           /\ echo' = Printed(done.printed)
    /\ UNCHANGED <<filepath, kp, modified, dry_run, pc, report, idx, entries_to_delete,
                   audit_log, backup_path, deleted_count, del_pos, backups, audit_files,
                   initial, presented, decisions, answer, delete_calls, arg, exc>>

SaveIfModified(ok) ==
    /\ pc = "manager"
    /\ LET done == save_if_modified(kp, file, modified, ok)
       IN  /\ file' = done.file
           /\ ret' = done.returned
           /\ echo' = Printed(done.printed)
    /\ UNCHANGED <<filepath, kp, modified, dry_run, pc, report, idx, entries_to_delete,
                   audit_log, backup_path, deleted_count, del_pos, backups, audit_files,
                   initial, presented, decisions, answer, delete_calls, arg, exc>>

CloseDatabase ==
    /\ pc = "manager"
    /\ kp' = NoKp
    /\ filepath' = NoPath
    /\ UNCHANGED <<file, modified, dry_run, pc, report, idx, entries_to_delete, audit_log,
                   backup_path, deleted_count, del_pos, echo, backups, audit_files,
                   initial, presented, decisions, answer, delete_calls, arg, ret, exc>>

AddEntry(outcome) ==
    /\ pc = "manager"
    /\ Len(kp.entries) + Len(kp.trash) < MaxManaged
    /\ LET done == add_entry(kp, file, modified, Profiles[2].title, Profiles[2].username,
                             Profiles[2].password, Profiles[2].url, outcome)
       IN  /\ kp' = done.kp
           /\ file' = done.file
           /\ modified' = done.modified
           /\ ret' = done.returned
           /\ echo' = Printed(done.printed)
    /\ UNCHANGED <<filepath, dry_run, pc, report, idx, entries_to_delete, audit_log,
                   backup_path, deleted_count, del_pos, backups, audit_files, initial,
                   presented, decisions, answer, delete_calls, arg, exc>>

DeleteEntry(i, outcome) ==
    /\ pc = "manager"
    /\ i \in 1..Len(kp.entries)
    /\ LET done == delete_entry(kp, file, modified, kp.entries[i], outcome)
       IN  /\ kp' = done.kp
           /\ file' = done.file
           /\ modified' = done.modified
           /\ ret' = done.returned
           /\ echo' = Printed(IF done.returned THEN "" ELSE "Error deleting entry")
    /\ UNCHANGED <<filepath, dry_run, pc, report, idx, entries_to_delete, audit_log,
                   backup_path, deleted_count, del_pos, backups, audit_files, initial,
                   presented, decisions, answer, delete_calls, arg, exc>>

UpdateEntry(i, ok) ==
    /\ pc = "manager"
    /\ i \in 1..Len(kp.entries)
    /\ LET done == update_entry(kp, modified, kp.entries[i], "changed", ok)
       IN  /\ kp' = done.kp
           /\ modified' = done.modified
           /\ ret' = done.returned
           /\ echo' = Printed(done.printed)
    /\ UNCHANGED <<filepath, file, dry_run, pc, report, idx, entries_to_delete, audit_log,
                   backup_path, deleted_count, del_pos, backups, audit_files, initial,
                   presented, decisions, answer, delete_calls, arg, exc>>

NextManager ==
    \/ \E outcome \in OpenOutcomes : OpenDatabase(outcome)
    \/ \E ok \in BOOLEAN : SaveDatabase(ok)
    \/ \E ok \in BOOLEAN : SaveIfModified(ok)
    \/ CloseDatabase
    \/ \E outcome \in AddOutcomes : AddEntry(outcome)
    \/ \E i \in 1..MaxManaged : \E outcome \in DeleteOutcomes : DeleteEntry(i, outcome)
    \/ \E i \in 1..MaxManaged : \E ok \in BOOLEAN : UpdateEntry(i, ok)

SpecManager == InitManager /\ [][NextManager]_vars

(***************************************************************************)
(* DatabaseManager.import_from_csv and import_from_kdbx (SpecImport).      *)
(***************************************************************************)
MaxRows == 2

\* the profiles a CSV row is written from (a CSV field is a text, and the
\* rows keep to non-empty titles, usernames and urls) and the profiles of
\* the entries of a source database
CsvProfiles == {1, 2, 5}
KdbxProfiles == {1, 3, 4}

\* csv.DictReader's row of profile p
Row(p) ==
    [title |-> Profiles[p].title, username |-> Profiles[p].username,
     password |-> Profiles[p].password, url |-> Profiles[p].url]

RowsOf(f) == [i \in DOMAIN f |-> Row(f[i])]

\* find_entries(title=..., username=..., url=...): the entries of db with
\* these three fields, none when no database is loaded
SameFields(entry, title, username, url) ==
    entry.title = title /\ entry.username = username /\ entry.url = url

find_entries(db, title, username, url) ==
    IF ~ db.loaded THEN <<>>
    ELSE SelectSeq(db.entries, LAMBDA entry : SameFields(entry, title, username, url))

\* the truth value of an optional text
Truthy(text) == text # None /\ text # <<>>

\* the results dictionary before the first row
NoResults == [success |-> 0, failed |-> 0, duplicates |-> <<>>, errors |-> <<>>]

NotLoaded == [success |-> 0, failed |-> 0, error |-> "No database loaded"]

\* one pass of import_from_csv's loop, on the manager state s
CsvRow(s, row, outcome) ==
    IF Len(find_entries(s.kp, row.title, row.username, row.url)) > 0
    THEN [s EXCEPT !.returned.duplicates =
                       Append(@, [title |-> row.title, username |-> row.username,
                                  url |-> row.url])]
    ELSE LET done == add_entry(s.kp, s.file, s.modified, row.title, row.username,
                               row.password, row.url, outcome)
         IN  [kp |-> done.kp, file |-> done.file, modified |-> done.modified,
              returned |->
                  IF done.returned
                  THEN [s.returned EXCEPT !.success = @ + 1]
                  ELSE [s.returned EXCEPT !.failed = @ + 1,
                                          !.errors = Append(@, <<"Failed to add", row.title>>)]]

RECURSIVE CsvRows(_, _, _, _)
CsvRows(s, rows, outcomes, i) ==
    IF i > Len(rows) THEN s
    ELSE CsvRows(CsvRow(s, rows[i], outcomes[i]), rows, outcomes, i + 1)

\* import_from_csv(filepath) of a file of these rows; outcomes[i] is how
\* add_entry ends when row i comes to it
import_from_csv(db, f, m, rows, outcomes) ==
    IF ~ db.loaded
    THEN [kp |-> db, file |-> f, modified |-> m, returned |-> NotLoaded]
    ELSE CsvRows([kp |-> db, file |-> f, modified |-> m, returned |-> NoResults],
                 rows, outcomes, 1)

\* one pass of import_from_kdbx's loop
KdbxEntry(s, entry, outcome) ==
    LET existing == IF Truthy(entry.url) /\ Truthy(entry.username)
                    THEN find_entries(s.kp, entry.title, entry.username, entry.url)
                    ELSE <<>>
    IN  IF Len(existing) > 0
        THEN [s EXCEPT !.returned.duplicates =
                           Append(@, [title |-> entry.title, username |-> entry.username,
                                      url |-> entry.url, entry |-> entry])]
        ELSE LET done == add_entry(s.kp, s.file, s.modified, entry.title,
                                   OrEmpty(entry.username), entry.password,
                                   OrEmpty(entry.url), outcome)
             IN  [kp |-> done.kp, file |-> done.file, modified |-> done.modified,
                  returned |->
                      IF done.returned
                      THEN [s.returned EXCEPT !.success = @ + 1]
                      ELSE [s.returned EXCEPT !.failed = @ + 1]]

RECURSIVE KdbxEntries(_, _, _, _)
KdbxEntries(s, source, outcomes, i) ==
    IF i > Len(source) THEN s
    ELSE KdbxEntries(KdbxEntry(s, source[i], outcomes[i]), source, outcomes, i + 1)

\* import_from_kdbx(source_filepath, source_password) of a source database
\* of these entries; opened is how PyKeePass(source_filepath, ...) ends
import_from_kdbx(db, f, m, source, opened, outcomes) ==
    IF ~ db.loaded
    THEN [kp |-> db, file |-> f, modified |-> m, returned |-> NotLoaded]
    ELSE IF opened = "credentials"
    THEN [kp |-> db, file |-> f, modified |-> m,
          returned |-> [success |-> 0, failed |-> 0,
                        error |-> "Invalid credentials for source database"]]
    ELSE IF opened # "opened"
    THEN [kp |-> db, file |-> f, modified |-> m,
          returned |-> [success |-> 0, failed |-> 0,
                        error |-> "Error opening source database"]]
    ELSE KdbxEntries([kp |-> db, file |-> f, modified |-> m, returned |-> NoResults],
                     source, outcomes, 1)

\* a manager on a database of no or one entry, or with no database loaded
InitImport ==
    \E f \in StoreChoices(1, {1, 3}) : \E loaded \in BOOLEAN :
        /\ Start(Database(Store(f)),
                 IF loaded THEN Load(Database(Store(f))) ELSE NoKp, TRUE, "import")
        /\ ret = <<>>

\* the call, to or from at; arg keeps what was imported
Imported(done, input, at) ==
    /\ kp' = done.kp
    /\ file' = done.file
    /\ modified' = done.modified
    /\ ret' = done.returned
    /\ arg' = input
    /\ pc' = at
    /\ UNCHANGED <<filepath, dry_run, report, idx, entries_to_delete, audit_log,
                   backup_path, deleted_count, del_pos, echo, backups, audit_files,
                   initial, presented, decisions, answer, delete_calls, exc>>

ImportFromCsv(rows, outcomes) ==
    /\ pc = "import"
    /\ Imported(import_from_csv(kp, file, modified, rows, outcomes), rows, "csv")

\* the same file once more
ImportFromCsvAgain(outcomes) ==
    /\ pc = "csv"
    /\ Imported(import_from_csv(kp, file, modified, arg, outcomes), arg, "csv again")

ImportFromKdbx(source, opened, outcomes) ==
    /\ pc = "import"
    /\ Imported(import_from_kdbx(kp, file, modified, source, opened, outcomes),
                source, "kdbx")

\* the same source once more
ImportFromKdbxAgain(opened, outcomes) ==
    /\ pc = "kdbx"
    /\ Imported(import_from_kdbx(kp, file, modified, arg, opened, outcomes),
                arg, "kdbx again")

NextImport ==
    \/ /\ pc = "import"
       /\ \E f \in StoreChoices(MaxRows, CsvProfiles) :
              \E outcomes \in [DOMAIN f -> AddOutcomes] : ImportFromCsv(RowsOf(f), outcomes)
    \/ /\ pc = "csv"
       /\ \E outcomes \in [DOMAIN arg -> AddOutcomes] : ImportFromCsvAgain(outcomes)
    \/ /\ pc = "import"
       /\ \E f \in StoreChoices(MaxRows, KdbxProfiles) : \E opened \in OpenOutcomes :
              \E outcomes \in [DOMAIN f -> AddOutcomes] :
                  ImportFromKdbx(Store(f), opened, outcomes)
    \/ /\ pc = "kdbx"
       /\ \E opened \in OpenOutcomes : \E outcomes \in [DOMAIN arg -> AddOutcomes] :
              ImportFromKdbxAgain(opened, outcomes)

SpecImport == InitImport /\ [][NextImport]_vars

(***************************************************************************)
(* PasswordGenerator.generate (SpecGen).                                   *)
(***************************************************************************)
MaxLength == 1

LOWERCASE ==
    <<"a", "b", "c", "d", "e", "f", "g", "h", "i", "j", "k", "l", "m", "n",
      "o", "p", "q", "r", "s", "t", "u", "v", "w", "x", "y", "z">>
UPPERCASE ==
    <<"A", "B", "C", "D", "E", "F", "G", "H", "I", "J", "K", "L", "M", "N",
      "O", "P", "Q", "R", "S", "T", "U", "V", "W", "X", "Y", "Z">>
DIGITS ==
    <<"0", "1", "2", "3", "4", "5", "6", "7", "8", "9">>
SPECIAL ==
    <<"!", "@", "#", "$", "%", "^", "&", "*", "(", ")", "_", "+", "-", "=",
      "[", "]", "{", "}", "|", ";", ":", ",", ".", "<", ">", "?">>
AMBIGUOUS ==
    <<"i", "l", "1", "L", "o", "0", "O">>

\* c in s, for a character c and a text s
In(c, s) == \E k \in 1..Len(s) : s[k] = c

\* the characters a custom charset is chosen from in the model: none, the
\* empty text and a text with a character of no set and an ambiguous one
CustomCharsets == {None, <<>>, <<"~", "l">>}

\* the arguments of a call of generate
Options ==
    [length : (0 - 1)..MaxLength, use_lowercase : BOOLEAN, use_uppercase : BOOLEAN,
     use_digits : BOOLEAN, use_special : BOOLEAN, exclude_ambiguous : BOOLEAN,
     custom_charset : CustomCharsets]

\* charset as it is when generate tests "if not charset"
SelectedCharset(o) ==
    IF Truthy(o.custom_charset) THEN o.custom_charset
    ELSE (IF o.use_lowercase THEN LOWERCASE ELSE <<>>)
         \o (IF o.use_uppercase THEN UPPERCASE ELSE <<>>)
         \o (IF o.use_digits THEN DIGITS ELSE <<>>)
         \o (IF o.use_special THEN SPECIAL ELSE <<>>)

\* a charset that keeps its ambiguous characters
CharsetKeepingAmbiguous(o) == SelectedCharset(o)

\* charset as it is when the password is drawn
Charset(o) ==
    IF o.exclude_ambiguous /\ ~ Truthy(o.custom_charset)
    THEN SelectSeq(SelectedCharset(o), LAMBDA c : ~ In(c, AMBIGUOUS))
    ELSE SelectedCharset(o)

\* range(length)
range(n) == 1..n

\* generate(length, ...): whether it raises ValueError, and otherwise the
\* passwords that random.choice can make
generate(o) ==
    [raises |-> SelectedCharset(o) = <<>>,
     passwords |-> IF SelectedCharset(o) = <<>> THEN {}
                   ELSE [range(o.length) -> {Charset(o)[k] : k \in 1..Len(Charset(o))}]]

InitGen == Start(Database(<<>>), NoKp, TRUE, "generate") /\ ret = <<>>

Generate(o) ==
    /\ pc = "generate"
    /\ arg' = o
    /\ IF generate(o).raises
       THEN /\ exc' = "ValueError"
            /\ pc' = "raised"
            /\ ret' = ret
       ELSE /\ ret' \in generate(o).passwords
            /\ pc' = "returned"
            /\ exc' = exc
    /\ UNCHANGED <<file, kp, modified, filepath, dry_run, report, idx, entries_to_delete,
                   audit_log, backup_path, deleted_count, del_pos, echo, backups,
                   audit_files, initial, presented, decisions, answer, delete_calls>>

NextGen == \E o \in Options : Generate(o)

SpecGen == InitGen /\ [][NextGen]_vars

(***************************************************************************)
(* Properties of the optimize command (Spec).                              *)
(***************************************************************************)
Quit == \E i \in 1..Len(decisions) : decisions[i] = <<"q">>
StoreUntouched == file = initial /\ (kp.loaded => kp = Load(initial))
DeletedEntries == [i \in 1..Len(delete_calls) |-> delete_calls[i].entry]
Succeeded == {i \in 1..Len(delete_calls) : delete_calls[i].returned}
BackupSucceeded ==
    \E i \in 1..Len(backups) : backups[i].path = backup_path /\ backups[i].complete
BackupFailed == backup_path # Unassigned /\ ~ BackupSucceeded

\* the ways the model's user types the integer k
Typed(k) == { <<Digits[k + 1]>>, <<"+", Digits[k + 1]>>, <<"0", Digits[k + 1]>> }

\* C1: once the user has answered quit at a group, delete_entry is never
\* called, the store is as it was before the run, and the groups presented are
\* exactly those up to the one quit at, whatever was decided before.
C1_QuitDiscardsAll ==
    Quit =>
        /\ delete_calls = <<>>
        /\ StoreUntouched
        /\ presented = [i \in 1..Len(decisions) |-> i]

\* quit at the second group, after a keep on the first had marked entries
C1_Witness ==
    /\ pc = "returned"
    /\ Len(decisions) = 2
    /\ decisions[1] \in Typed(1)
    /\ decisions[2] = <<"q">>
    /\ entries_to_delete # <<>>
    /\ Len(report.duplicate_groups) = 2

\* C2: in a run without --dry-run a group is presented only after
\* create_backup has returned success; when it has returned failure the run
\* has exited with no group presented and no delete_entry call.
C2_BackupBeforeReview ==
    /\ (~ dry_run /\ presented # <<>>) => BackupSucceeded
    /\ (~ dry_run /\ BackupFailed) =>
          presented = <<>> /\ delete_calls = <<>> /\ pc = "exit"

\* the copy broke off midway and the command exited
C2_Witness ==
    /\ ~ dry_run
    /\ BackupFailed
    /\ backups # <<>>
    /\ pc = "exit"

\* C3: when the user enters an integer k within 1..n at a group of n entries,
\* the n-1 other entries of the group are appended to the deletion list in
\* group order, the k-th is not, one audit line is appended, and the loop
\* advances to the next group (or leaves the loop after the last).
C3_KeepStep ==
    \A k \in 1..(MaxStore + 1) :
        (/\ pc = "review"
         /\ k <= Len(report.duplicate_groups[idx].entries)
         /\ Len(decisions') = Len(decisions) + 1
         /\ decisions'[Len(decisions')] \in Typed(k))
        => LET group == report.duplicate_groups[idx]
               n == Len(group.entries)
               added == SubSeq(entries_to_delete', Len(entries_to_delete) + 1,
                               Len(entries_to_delete'))
           IN /\ Len(entries_to_delete') = Len(entries_to_delete) + n - 1
              /\ SubSeq(entries_to_delete', 1, Len(entries_to_delete)) = entries_to_delete
              /\ \A i \in 1..n :
                    IF i = k
                    THEN \A j \in 1..Len(added) : added[j].id # group.entries[i].id
                    ELSE Cardinality({j \in 1..Len(added) :
                                         added[j] = group.entries[i]}) = 1
              /\ Len(audit_log') = Len(audit_log) + 1
              /\ SubSeq(audit_log', 1, Len(audit_log)) = audit_log
              /\ audit_log'[Len(audit_log')].action = "Kept"
              /\ audit_log'[Len(audit_log')].title = group.entries[k].title
              /\ audit_log'[Len(audit_log')].deleted = n - 1
              /\ IF idx < Len(report.duplicate_groups)
                 THEN pc' = "review" /\ idx' = idx + 1
                 ELSE pc' = "summary"

C3_KeepMarksOthers == [][C3_KeepStep]_vars

\* the second of three entries was kept: the first and the third are marked
C3_Witness ==
    /\ Len(decisions) = 1
    /\ decisions[1] \in Typed(2)
    /\ Len(report.duplicate_groups[1].entries) = 3
    /\ entries_to_delete = << report.duplicate_groups[1].entries[1],
                              report.duplicate_groups[1].entries[3] >>

\* C4: when the final confirmation is declined, the run has returned with no
\* delete_entry call and the store as it was.
C4_DeclineKeepsStore ==
    answer = "n" =>
        /\ delete_calls = <<>>
        /\ StoreUntouched
        /\ pc = "returned"

\* every group was reviewed, entries were marked, and the user declined
C4_Witness ==
    /\ answer = "n"
    /\ entries_to_delete # <<>>
    /\ Len(decisions) = Len(report.duplicate_groups)
    /\ Len(decisions) = 2
    /\ pc = "returned"

\* C5: once the confirmation is accepted, delete_entry is called once for
\* each entry of the deletion list, in order, whether or not earlier calls
\* failed, and deleted_count (also the total of the audit file) is the number
\* of calls that returned True.
C5_BestEffortDeletes ==
    answer = "y" =>
        /\ pc \in {"delete", "audit", "returned"}
        /\ pc = "delete" => DeletedEntries = SubSeq(entries_to_delete, 1, del_pos - 1)
        /\ pc # "delete" => DeletedEntries = entries_to_delete
        /\ deleted_count = Cardinality(Succeeded)
        /\ \A i \in 1..Len(audit_files) :
              audit_files[i].total_deleted = Cardinality(Succeeded)

\* a failed delete was followed by a successful one; fewer deleted than asked
C5_Witness ==
    /\ answer = "y"
    /\ pc = "returned"
    /\ \E i, j \in 1..Len(delete_calls) :
          i < j /\ ~ delete_calls[i].returned /\ delete_calls[j].returned
    /\ deleted_count < Len(entries_to_delete)
    /\ audit_files # <<>>

\* C6: a run without --dry-run that ends without quit and has logged at least
\* one skip or keep decision has written the audit file, which names the
\* backup and the database.
C6_AuditAlwaysSaved ==
    (/\ pc = "returned"
     /\ ~ dry_run
     /\ ~ Quit
     /\ audit_log # <<>>)
    => /\ Len(audit_files) = 1
       /\ audit_files[1].actions = audit_log
       /\ audit_files[1].backup = backup_path
       /\ audit_files[1].database = DatabasePath
       /\ BackupSucceeded

\* C7: in a dry run no delete_entry call is made, no backup file and no audit
\* file is written, and the store stays as it was, whatever the user chooses.
C7_DryRunChangesNothing ==
    dry_run =>
        /\ delete_calls = <<>>
        /\ backups = <<>>
        /\ audit_files = <<>>
        /\ StoreUntouched

\* a dry run that went through two groups and marked entries
C7_Witness ==
    /\ dry_run
    /\ pc = "returned"
    /\ Len(decisions) = 2
    /\ ~ Quit
    /\ entries_to_delete # <<>>

\* what is not quit, skip or an integer of 1..n: 0, a negative, n + 1 and
\* beyond, text, and digits with something between or after them
InvalidChoices(n) ==
    { <<"0">>, <<"-", "1">>, <<"1", "0">>, <<"x">>, <<"q", "q">>, <<"1", "_">>,
      <<"1", " ", "2">> }
        \cup { <<Digits[k + 1]>> : k \in (n + 1)..(MaxStore + 1) }

\* the prompt loop goes round: same group, nothing marked, nothing logged
Rejected ==
    /\ pc' = "review"
    /\ idx' = idx
    /\ presented' = presented
    /\ entries_to_delete' = entries_to_delete
    /\ audit_log' = audit_log
    /\ decisions' = decisions
    /\ echo' = "Invalid choice"

\* C20: at the prompt of a group of n entries, any input other than quit,
\* skip or an integer of 1..n is rejected: the same group is prompted again
\* and the deletion list, the audit log and the group index are as before.
C20_InvalidStep ==
    pc = "review" =>
        \A raw \in InvalidChoices(Len(report.duplicate_groups[idx].entries)) :
            Choose(raw) => Rejected

C20_InvalidRejected == [][C20_InvalidStep]_vars

\* an input was rejected at the second group, after entries were marked at
\* the first
C20_Witness ==
    /\ pc = "review"
    /\ echo = "Invalid choice"
    /\ idx = 2
    /\ entries_to_delete # <<>>
    /\ Len(audit_log) = 1

(***************************************************************************)
(* Properties of the report of find_duplicates (SpecFind).                 *)
(***************************************************************************)
Groups == report.duplicate_groups
GroupIds(g) == {g.entries[i].id : i \in 1..Len(g.entries)}

\* the normalized key of every record of the store, by position
StoreKeys ==
    [i \in 1..Len(file.entries) |->
        <<normalize_url(file.entries[i].url),
          normalize_username(file.entries[i].username)>>]

\* the position in the store of the record e
StorePos(e) == CHOOSE i \in 1..Len(file.entries) : file.entries[i].id = e.id

\* C8: every group of the report has at least 2 entries, every entry of a group
\* has the group's url/username as its normalized key, and no entry is in two
\* groups (nor twice in one).
C8_GroupsWellFormed ==
    pc = "found" =>
        \A keys \in {StoreKeys} :
           /\ \A g \in 1..Len(Groups) : Len(Groups[g].entries) >= 2
           /\ \A g \in 1..Len(Groups) : \A i \in 1..Len(Groups[g].entries) :
                 keys[StorePos(Groups[g].entries[i])] = <<Groups[g].url, Groups[g].username>>
           /\ \A g, h \in 1..Len(Groups) :
                 \A i \in 1..Len(Groups[g].entries) : \A j \in 1..Len(Groups[h].entries) :
                     Groups[g].entries[i].id = Groups[h].entries[j].id => g = h /\ i = j

\* a report with two groups, one of them mixing raw urls, beside a singleton
C8_Witness ==
    /\ pc = "found"
    /\ Len(Groups) = 2
    /\ report.total_entries > report.total_duplicates
    /\ \E g \in 1..Len(Groups) : Groups[g].entries[1].url # Groups[g].entries[2].url

\* C9: find_duplicates is complete: a record whose normalized key is shared by
\* another record is in exactly one group, and that group is the records of
\* its key in store order; a record with a unique key is in no group.
C9_Complete ==
    pc = "found" =>
        \A keys \in {StoreKeys} : \A i \in 1..Len(file.entries) :
           \A mates \in {{j \in 1..Len(file.entries) : keys[j] = keys[i]}} :
              LET holders == {g \in 1..Len(Groups) :
                                 file.entries[i].id \in GroupIds(Groups[g])}
              IN IF Cardinality(mates) >= 2
                 THEN /\ Cardinality(holders) = 1
                      /\ \A g \in holders :
                            /\ Len(Groups[g].entries) = Cardinality(mates)
                            /\ \A k \in 1..Len(Groups[g].entries) :
                                  /\ Groups[g].entries[k] \in {file.entries[j] : j \in mates}
                                  /\ k > 1 => StorePos(Groups[g].entries[k - 1])
                                                 < StorePos(Groups[g].entries[k])
                 ELSE holders = {}

\* three records that differ in case, www., trailing slash and surrounding
\* blanks are one group; a record differing from them in the scheme is in none
C9_Witness ==
    /\ pc = "found"
    /\ \E g \in 1..Len(Groups) :
          /\ Len(Groups[g].entries) = 3
          /\ \E i, j \in 1..3 :
                /\ Groups[g].entries[i].url # Groups[g].entries[j].url
                /\ Groups[g].entries[i].username # Groups[g].entries[j].username
    /\ \E i \in 1..Len(file.entries) :
          /\ file.entries[i].title = "Plain"
          /\ \A g \in 1..Len(Groups) : file.entries[i].id \notin GroupIds(Groups[g])

\* the position in the store of the first record with the key of group g
FirstSeen(keys, g) ==
    CHOOSE i \in 1..Len(keys) :
        /\ keys[i] = <<g.url, g.username>>
        /\ \A j \in 1..(i - 1) : keys[j] # <<g.url, g.username>>

\* C10: the groups are in descending order of size, and of two groups of the
\* same size the one whose key the store enumeration met first comes first.
C10_SortedStable ==
    pc = "found" =>
        \A keys \in {StoreKeys} : \A g, h \in 1..Len(Groups) :
              g < h =>
                  /\ Len(Groups[g].entries) >= Len(Groups[h].entries)
                  /\ Len(Groups[g].entries) = Len(Groups[h].entries)
                        => FirstSeen(keys, Groups[g]) < FirstSeen(keys, Groups[h])

\* the larger group comes first although its key was met later
C10_Witness ==
    /\ pc = "found"
    /\ Len(Groups) = 2
    /\ Len(Groups[1].entries) > Len(Groups[2].entries)
    /\ FirstSeen(StoreKeys, Groups[1]) > FirstSeen(StoreKeys, Groups[2])

\* C11: the report counts what was scanned: total_entries is the number of
\* records enumerated, total_duplicates the sum of the group sizes and
\* redundant_entries that sum less the number of groups; a store that is empty
\* or whose normalized keys are pairwise distinct has no group and both
\* figures 0.
C11_ReportCounts ==
    pc = "found" =>
        \A keys \in {StoreKeys} :
            LET size[i \in 0..Len(Groups)] ==
                    IF i = 0 THEN 0 ELSE size[i - 1] + Len(Groups[i].entries)
                distinct == \A i, j \in 1..Len(keys) : i # j => keys[i] # keys[j]
            IN  /\ report.total_entries = Len(file.entries)
                /\ report.total_duplicates = size[Len(Groups)]
                /\ report.redundant_entries = report.total_duplicates - Len(Groups)
                /\ distinct =>
                      /\ Groups = <<>>
                      /\ report.total_duplicates = 0
                      /\ report.redundant_entries = 0

\* five records in two groups: three of them are redundant
C11_Witness ==
    /\ pc = "found"
    /\ report.total_entries = 5
    /\ Len(Groups) = 2
    /\ report.total_duplicates = 5
    /\ report.redundant_entries = 3

\* the groups of the report whose entries carry more than one password
Mixed(g) == \E a, b \in 1..Len(g.entries) : g.entries[a].password # g.entries[b].password
MixedGroups == {i \in 1..Len(Groups) : Mixed(Groups[i])}

\* C12: a group's has_different_passwords is true exactly when its entries
\* carry more than one distinct password, and
\* get_groups_with_different_passwords returns exactly the groups with the
\* flag, in the order of the report.
C12_DifferentPasswords ==
    pc = "listed" =>
        /\ \A i \in 1..Len(Groups) : Groups[i].has_different_passwords <=> Mixed(Groups[i])
        /\ Len(ret) = Cardinality(MixedGroups)
        /\ \A k \in 1..Len(ret) :
              ret[k] = Groups[CHOOSE i \in MixedGroups :
                                 Cardinality({j \in MixedGroups : j < i}) = k - 1]

\* the second group of the report is the only one listed
C12_Witness ==
    /\ pc = "listed"
    /\ Len(Groups) = 2
    /\ ~ Mixed(Groups[1])
    /\ Len(ret) = 1
    /\ ret[1] = Groups[2]

\* the call of create_backup left a complete copy at its destination
Copied == \E i \in 1..Len(backups) : backups[i].path = arg /\ backups[i].complete

\* C17: when create_backup cannot complete the copy it returns False, no
\* exception escapes, and the live store and its file are as they were.
C17_FailedBackupReturnsFalse ==
    pc = "backed_up" /\ ~ Copied =>
        /\ ret = FALSE
        /\ exc = ""
        /\ StoreUntouched

\* the copy of a store of two records broke off half way
C17_Witness ==
    /\ pc = "backed_up"
    /\ kp.loaded
    /\ Len(kp.entries) >= 2
    /\ Len(backups) = 1
    /\ ~ backups[1].complete
    /\ ret = FALSE

\* C18: create_backup never leaves a partially written file at the
\* destination.
C18_NoPartialBackup == \A i \in 1..Len(backups) : backups[i].complete

\* C19: with no store loaded find_duplicates returns an empty report and
\* create_backup returns False, and no exception escapes either of them,
\* whatever the store holds.
C19_NoStoreNeverRaises ==
    /\ exc = ""
    /\ ~ kp.loaded =>
          /\ pc = "backed_up" => ret = FALSE /\ backups = <<>>
          /\ pc \notin {"find", "backed_up"} =>
                /\ pc = "found"
                /\ report = DuplicateReport(0, <<>>)

(***************************************************************************)
(* Properties of normalize_url (SpecNorm).                                 *)
(***************************************************************************)
\* C13: normalize_url is idempotent: normalizing what it returned gives the
\* same string again, for every input.
C13_Idempotent == pc = "renormalized" => ret = arg

\* well-formed urls as typed, each with the normalized form spelt out:
\* optional blanks around, optional http:// prefix, up to two www. prefixes,
\* a host, and a path that is empty, the root, or ends in a segment
Pads == { <<>>, <<" ">> }
SchemeForms == { [typed |-> <<>>, out |-> HttpsPrefix],
                 [typed |-> HttpPrefix, out |-> HttpPrefix] }
WwwForms == { [typed |-> <<>>, out |-> <<>>],
              [typed |-> WwwPrefix, out |-> <<>>],
              [typed |-> WwwPrefix \o WwwPrefix, out |-> WwwPrefix] }
HostForms == { [typed |-> <<"a">>, out |-> <<"a">>],
               [typed |-> <<"A">>, out |-> <<"a">>],
               [typed |-> <<"a", "A">>, out |-> <<"a", "a">>] }
PathForms == { [typed |-> <<>>, out |-> <<>>],
               [typed |-> <<"/">>, out |-> <<>>],
               [typed |-> <<"/", "a">>, out |-> <<"/", "a">>],
               [typed |-> <<"/", "A">>, out |-> <<"/", "a">>] }
WellFormedUrls ==
    { [typed |-> before \o sch.typed \o www.typed \o host.typed \o path.typed \o after,
       out   |-> sch.out \o www.out \o host.out \o path.out] :
          before \in Pads, sch \in SchemeForms, www \in WwwForms, host \in HostForms,
          path \in PathForms, after \in Pads }

Blank(s) == \A i \in 1..Len(s) : s[i] \in Whitespace

\* C14: a well-formed url is returned as scheme://host+path of the lowercased,
\* trimmed input, with https:// when the input has no scheme prefix, one
\* leading www. taken off the host, and the root path / made empty; None, the
\* empty string and an all-whitespace string give the empty string.
C14_NormalForm ==
    pc = "normalized" =>
        /\ (arg = None \/ Blank(arg)) => ret = <<>>
        /\ \A u \in WellFormedUrls : arg = u.typed => ret = u.out

\* "http://www.A/" is returned as "http://a"
C14_Witness ==
    /\ pc = "normalized"
    /\ arg = HttpPrefix \o WwwPrefix \o <<"A", "/">>
    /\ ret = HttpPrefix \o <<"a">>

\* urls that end in k slashes after a host and a path body
Slashes(k) == [i \in 1..k |-> "/"]
SlashBases == { [typed |-> <<"a">>, out |-> HttpsPrefix \o <<"a">>],
                [typed |-> HttpPrefix \o <<"a">>, out |-> HttpPrefix \o <<"a">>] }
SlashBodies == { <<>>, <<"/", "a">> }

\* C15 as stated: exactly one trailing / is taken off a non-root path
\* (/a// becomes /a/), and the path that is exactly / becomes empty.
C15_StripsOneSlash ==
    pc = "normalized" =>
        \A base \in SlashBases, body \in SlashBodies, k \in 1..MaxTokens :
            arg = base.typed \o body \o Slashes(k)
                => ret = base.out \o body \o Slashes(k - 1)

\* C15, amended: every trailing / is taken off the path (/a// becomes /a), and
\* the path that is exactly / becomes empty.
C15_StripsAllSlashes ==
    pc = "normalized" =>
        \A base \in SlashBases, body \in SlashBodies, k \in 1..MaxTokens :
            arg = base.typed \o body \o Slashes(k) => ret = base.out \o body

\* "a//" is returned as "https://a"
C15_Witness ==
    /\ pc = "normalized"
    /\ arg = <<"a", "/", "/">>
    /\ ret = HttpsPrefix \o <<"a">>

\* C16: when parsing fails normalize_url returns the lowercased original input
\* with no other modification, in particular without the https:// prefix it
\* may have put in front.
C16_FailureReturnsOriginal ==
    pc = "normalized" /\ ParseFails(arg) => ret = Lower(arg)

(***************************************************************************)
(* Further properties of the optimize command (Spec).                      *)
(***************************************************************************)
InStore(entries, e) == \E i \in 1..Len(entries) : entries[i].id = e.id
Marked(e) == InStore(entries_to_delete, e)

\* the ways the model's user types skip
SkipInputs == { <<"s">>, <<"S", " ">> }

C21_SkipStep ==
    pc = "review" =>
        \A raw \in SkipInputs :
            Choose(raw) =>
                /\ entries_to_delete' = entries_to_delete
                /\ Len(audit_log') = Len(audit_log) + 1
                /\ SubSeq(audit_log', 1, Len(audit_log)) = audit_log
                /\ audit_log'[Len(audit_log')].action = "Skipped"
                /\ audit_log'[Len(audit_log')].url = Groups[idx].url
                /\ audit_log'[Len(audit_log')].username = Groups[idx].username
                /\ IF idx < Len(Groups)
                   THEN pc' = "review" /\ idx' = idx + 1
                   ELSE pc' = "summary"

C21_SkippedKept ==
    \A i \in 1..Len(decisions) :
        decisions[i] = <<"s">> =>
            \A k \in 1..Len(Groups[presented[i]].entries) :
                LET e == Groups[presented[i]].entries[k]
                IN  /\ ~ Marked(e)
                    /\ InStore(kp.entries, e)
                    /\ InStore(file.entries, e)

\* C21: the choice skip adds no entry to the deletion list, appends exactly
\* one audit line, for the group shown, and goes on to the next group (to the
\* summary after the last); every entry of a skipped group stays in the store
\* and in its file to the end of the run.
C21_Skip == [][C21_SkipStep /\ C21_SkippedKept']_vars

\* a run that skipped one group, kept an entry of the other and deleted
C21_Witness ==
    /\ pc = "returned"
    /\ answer = "y"
    /\ \E i \in 1..Len(decisions) : decisions[i] = <<"s">>
    /\ \E j \in 1..Len(delete_calls) : delete_calls[j].returned

\* the entry number of the keep decision i, 0 when decision i is no keep
KeptNumber(i) ==
    IF \E k \in 1..(MaxStore + 1) : decisions[i] \in Typed(k)
    THEN CHOOSE k \in 1..(MaxStore + 1) : decisions[i] \in Typed(k)
    ELSE 0
Survivors ==
    { Groups[presented[i]].entries[KeptNumber(i)].id :
          i \in {j \in 1..Len(decisions) : KeptNumber(j) > 0} }
InSomeGroup(e) == \E g \in 1..Len(Groups) : e.id \in GroupIds(Groups[g])

\* C28: the deletion list never holds an entry twice, holds only entries of
\* the report's groups and never the entry kept of a group; after a confirmed
\* run every group still has an entry in the store, and every entry outside
\* the groups is still there.
C28_DeletionSetSound ==
    /\ \A i, j \in 1..Len(entries_to_delete) :
          i # j => entries_to_delete[i].id # entries_to_delete[j].id
    /\ \A i \in 1..Len(entries_to_delete) :
          /\ InSomeGroup(entries_to_delete[i])
          /\ entries_to_delete[i].id \notin Survivors
    /\ \A i \in 1..Len(delete_calls) : Marked(delete_calls[i].entry)
    /\ pc = "returned" /\ answer = "y" =>
          /\ \A g \in 1..Len(Groups) :
                \E k \in 1..Len(Groups[g].entries) :
                    /\ InStore(kp.entries, Groups[g].entries[k])
                    /\ InStore(file.entries, Groups[g].entries[k])
          /\ \A i \in 1..Len(initial.entries) :
                ~ InSomeGroup(initial.entries[i]) =>
                    /\ InStore(kp.entries, initial.entries[i])
                    /\ InStore(file.entries, initial.entries[i])

\* a group with its entry kept, an entry outside the groups, and every
\* deletion done
C28_Witness ==
    /\ pc = "returned"
    /\ answer = "y"
    /\ Len(Groups) = 1
    /\ Cardinality(Survivors) = 1
    /\ Len(delete_calls) >= 2
    /\ \A i \in 1..Len(delete_calls) : delete_calls[i].returned
    /\ \E i \in 1..Len(initial.entries) : ~ InSomeGroup(initial.entries[i])

\* C29: the groups are shown in report order, one at a time, each decided
\* once; delete_entry is called only when every group has its skip or keep
\* decision and the confirmation was answered yes.
C29_ReviewBeforeDelete ==
    /\ \A i \in 1..Len(presented) : presented[i] = i
    /\ Len(presented) <= Len(Groups)
    /\ Len(decisions) <= Len(presented)
    /\ pc = "review" =>
          /\ kp.loaded
          /\ has_duplicates(report)
          /\ idx = Len(presented)
          /\ Len(decisions) = idx - 1
    /\ (pc = "delete" \/ delete_calls # <<>>) =>
          /\ Len(decisions) = Len(Groups)
          /\ \A i \in 1..Len(decisions) : decisions[i] = <<"s">> \/ KeptNumber(i) > 0
          /\ answer = "y"

\* the first delete_entry call of a run over two groups
C29_Witness ==
    /\ pc = "delete"
    /\ Len(Groups) = 2
    /\ Len(decisions) = 2
    /\ Len(delete_calls) = 1

(***************************************************************************)
(* Further properties of find_duplicates (SpecFind).                       *)
(***************************************************************************)
BlankField(s) == s = None \/ Blank(s)
BlankRecords ==
    { i \in 1..Len(file.entries) :
          BlankField(file.entries[i].url) /\ BlankField(file.entries[i].username) }

\* C22: two or more records whose url and username are both empty or absent
\* are reported as one duplicate group, under the key of two empty strings.
C22_BlankKeysGrouped ==
    pc = "found" /\ Cardinality(BlankRecords) >= 2 =>
        /\ \E g \in 1..Len(Groups) :
              /\ Groups[g].url = <<>>
              /\ Groups[g].username = <<>>
              /\ GroupIds(Groups[g]) = { file.entries[i].id : i \in BlankRecords }
        /\ Cardinality({ g \in 1..Len(Groups) :
                            Groups[g].url = <<>> /\ Groups[g].username = <<>> }) = 1

\* a record with absent fields and one with blank fields share the group
C22_Witness ==
    /\ pc = "found"
    /\ \E g \in 1..Len(Groups) :
          /\ Groups[g].url = <<>>
          /\ \E a, b \in 1..Len(Groups[g].entries) :
                /\ Groups[g].entries[a].url = None
                /\ Groups[g].entries[b].url = <<" ">>

(***************************************************************************)
(* Properties of get_newest_entry and get_oldest_entry (SpecTimes).        *)
(***************************************************************************)
Modified == {i \in 1..Len(arg) : arg[i].mtime # NoTime}
Created == {i \in 1..Len(arg) : arg[i].ctime # NoTime}

\* C23: get_newest_entry returns a member of the group with the largest
\* modified-time and get_oldest_entry one with the smallest created-time, the
\* first in entries order of those that share it; an entry with no timestamp
\* is never returned when some entry of the group has one.
C23_NewestOldest ==
    /\ pc = "newest" =>
          /\ \E i \in 1..Len(arg) : ret = arg[i]
          /\ Modified = {} => ret = arg[1]
          /\ Modified # {} =>
                /\ ret.id \in Modified
                /\ \A j \in Modified : arg[j].mtime <= ret.mtime
                /\ \A j \in Modified : j < ret.id => arg[j].mtime < ret.mtime
    /\ pc = "oldest" =>
          /\ \E i \in 1..Len(arg) : ret = arg[i]
          /\ Created = {} => ret = arg[1]
          /\ Created # {} =>
                /\ ret.id \in Created
                /\ \A j \in Created : arg[j].ctime >= ret.ctime
                /\ \A j \in Created : j < ret.id => arg[j].ctime > ret.ctime

(***************************************************************************)
(* Properties of the DatabaseManager (SpecManager).                        *)
(***************************************************************************)
FailedOpens == {"missing", "credentials", "error"}

C24_FailedOpenStep ==
    \A outcome \in FailedOpens :
        OpenDatabase(outcome) =>
            /\ ret' = FALSE
            /\ kp' = kp
            /\ filepath' = filepath
            /\ modified' = modified
            /\ file' = file
            /\ ~ is_open(kp) => ~ is_open(kp')

\* C24: an open that fails, for a missing file, wrong credentials or any
\* other error, returns False and leaves kp, filepath, modified and the file as
\* they were; a manager with no database loaded is still not open afterwards.
C24_FailedOpen == [][C24_FailedOpenStep]_vars

\* the last call was an open with wrong credentials, on a manager that holds
\* a database with an unsaved update
C24_Witness ==
    /\ pc = "manager"
    /\ ret = FALSE
    /\ echo = "Invalid credentials"
    /\ is_open(kp)
    /\ modified
    /\ filepath = DatabasePath

\* the step is a successful call of save, save_if_modified, add_entry or
\* delete_entry, or a call of close
ClearingCall ==
    \/ SaveDatabase(TRUE) /\ ret'
    \/ SaveIfModified(TRUE) /\ ret'
    \/ \E outcome \in AddOutcomes : AddEntry(outcome) /\ ret'
    \/ \E i \in 1..MaxManaged : \E outcome \in DeleteOutcomes : DeleteEntry(i, outcome) /\ ret'
    \/ CloseDatabase

SuccessfulUpdate == \E i \in 1..MaxManaged : UpdateEntry(i, TRUE) /\ ret'

C30_ModifiedStep ==
    /\ ClearingCall => ~ modified'
    /\ SuccessfulUpdate => modified'
    /\ modified' /\ ~ modified => SuccessfulUpdate

\* C30: modified is true exactly when an update_entry has succeeded since the
\* last successful save: it becomes true by a successful update_entry only,
\* and it is False after every successful save, save_if_modified, add_entry
\* or delete_entry and after close.
C30_ModifiedTracksUpdates == [][C30_ModifiedStep]_vars

(***************************************************************************)
(* Properties of the imports (SpecImport).                                 *)
(***************************************************************************)
\* how many entries of db have these three fields
CountSame(db, title, username, url) == Len(find_entries(db, title, username, url))

\* a step of an import into a loaded database that came to its rows
CsvImportStep == pc \in {"import", "csv"} /\ pc' \in {"csv", "csv again"} /\ kp.loaded
KdbxImportStep ==
    /\ pc \in {"import", "kdbx"} /\ pc' \in {"kdbx", "kdbx again"} /\ kp.loaded
    /\ "duplicates" \in DOMAIN ret'

C25_CsvStep ==
    CsvImportStep =>
        /\ \A i \in 1..Len(arg') :
               CountSame(kp, arg'[i].title, arg'[i].username, arg'[i].url) > 0 =>
                   /\ CountSame(kp', arg'[i].title, arg'[i].username, arg'[i].url)
                          = CountSame(kp, arg'[i].title, arg'[i].username, arg'[i].url)
                   /\ \E d \in 1..Len(ret'.duplicates) :
                          ret'.duplicates[d] = [title |-> arg'[i].title,
                                                username |-> arg'[i].username,
                                                url |-> arg'[i].url]
        /\ \A i \in 1..Len(arg') :
               CountSame(kp', arg'[i].title, arg'[i].username, arg'[i].url) <= 1
        /\ ret'.success + ret'.failed + Len(ret'.duplicates) = Len(arg')
        /\ Len(kp'.entries) = Len(kp.entries) + ret'.success
        /\ (pc = "csv" /\ ret.failed = 0) => kp'.entries = kp.entries

\* C25: import_from_csv adds no entry for a row whose (title, username, url)
\* is that of an entry of the database, one added by an earlier row of the
\* same import included, and records the row in duplicates; success + failed
\* + len(duplicates) is the number of rows and the number of entries grows by
\* exactly success; importing the same file once more after an import
\* without failures adds nothing.
C25_CsvImport == [][C25_CsvStep]_vars

C26_KdbxStep ==
    KdbxImportStep =>
        /\ \A i \in 1..Len(arg') :
               CountSame(kp, arg'[i].title, arg'[i].username, arg'[i].url) > 0 =>
                   CountSame(kp', arg'[i].title, arg'[i].username, arg'[i].url)
                       = CountSame(kp, arg'[i].title, arg'[i].username, arg'[i].url)
        /\ (pc = "kdbx" /\ "duplicates" \in DOMAIN ret /\ ret.failed = 0) =>
               kp'.entries = kp.entries

\* C26: import_from_kdbx adds no entry for a source entry that has the title,
\* username and url of an entry of the target database, whatever its url and
\* username (empty ones included), so importing the same source once more
\* after an import without failures adds nothing.
C26_KdbxImport == [][C26_KdbxStep]_vars

(***************************************************************************)
(* Properties of PasswordGenerator.generate (SpecGen).                     *)
(***************************************************************************)
Chars(s) == {s[k] : k \in 1..Len(s)}

NoCustom == ~ Truthy(arg.custom_charset)

\* the union of the enabled character sets
Enabled ==
    (IF arg.use_lowercase THEN Chars(LOWERCASE) ELSE {})
        \cup (IF arg.use_uppercase THEN Chars(UPPERCASE) ELSE {})
        \cup (IF arg.use_digits THEN Chars(DIGITS) ELSE {})
        \cup (IF arg.use_special THEN Chars(SPECIAL) ELSE {})

\* the characters a password may have under the enabled sets, a custom
\* charset counted as one of them
DrawnFrom ==
    (Enabled \cup (IF NoCustom THEN {} ELSE Chars(arg.custom_charset)))
        \ (IF arg.exclude_ambiguous /\ NoCustom THEN Chars(AMBIGUOUS) ELSE {})

\* the characters a password may have: those of the custom charset when one
\* is given, otherwise the enabled ones without the excluded ones
Allowed ==
    IF NoCustom
    THEN Enabled \ (IF arg.exclude_ambiguous THEN Chars(AMBIGUOUS) ELSE {})
    ELSE Chars(arg.custom_charset)

NothingSelected == NoCustom /\ Enabled = {}

\* C27 as stated: generate(length=n, ...) returns a string of exactly n
\* characters, each of the union of the enabled character sets (without the
\* ambiguous ones when exclude_ambiguous is set and no custom charset is
\* given), and raises ValueError instead of returning when no set is enabled
\* and no custom charset is given.
C27_ExactlyN ==
    /\ pc = "returned" =>
           /\ Len(ret) = arg.length
           /\ \A k \in 1..Len(ret) : ret[k] \in DrawnFrom
    /\ (pc \in {"returned", "raised"} /\ NothingSelected) =>
           pc = "raised" /\ exc = "ValueError"

\* C27 amended: generate(length=n, ...) returns a string of exactly n
\* characters when n >= 0 and the empty string when n < 0; each character is
\* of the custom charset when a non-empty one is given, and otherwise of the
\* union of the enabled sets without the ambiguous characters when
\* exclude_ambiguous is set; it raises ValueError instead of returning
\* exactly when no set is enabled and no non-empty custom charset is given.
C27_LengthAndCharset ==
    /\ pc = "returned" =>
           /\ Len(ret) = (IF arg.length >= 0 THEN arg.length ELSE 0)
           /\ \A k \in 1..Len(ret) : ret[k] \in Allowed
           /\ ~ NothingSelected
    /\ pc = "raised" => NothingSelected /\ exc = "ValueError"

C27_Witness ==
    /\ pc = "returned"
    /\ arg.length = 1
    /\ arg.exclude_ambiguous
    /\ arg.custom_charset = None
    /\ arg.use_lowercase /\ arg.use_digits /\ ~ arg.use_uppercase /\ ~ arg.use_special
    /\ ret = <<"2">>

=============================================================================
